---- MODULE Spec2Model ----
(***************************************************************************)
(* MultiplyMerge (mlpack, methods/ann/layer/multiply_merge_impl.hpp):      *)
(* a layer that holds an ordered vector of branch pointers, multiplies     *)
(* the branches' outputs element-wise in Forward, sums their deltas in     *)
(* Backward, forwards Gradient to them, and deletes them in its            *)
(* destructor when ownsLayer is set.                                       *)
(*                                                                         *)
(* Two specifications share the state:                                     *)
(*   LifeSpec  construct / attach / copy / move / destroy / serialize on   *)
(*             several layers sharing a pool of branch objects;            *)
(*   Spec      Forward / Backward / Gradient on one constructed layer,     *)
(*             over small tensors.                                         *)
(***************************************************************************)
EXTENDS Integers, Sequences, FiniteSets, TLC

\* ---------------------------------------------------------------- bounds
NumLayers == 3      \* layer objects that may exist during a run
NumBranches == 4    \* branch objects that may ever be allocated
RunNet == 3         \* branches of the layer that Spec runs
MaxNet == 2         \* branches attached to one layer by Add
MaxOps == 5         \* operations in one run of LifeSpec
MaxCalls == 3       \* Forward / Backward / Gradient calls in one run of Spec
Dim == 2            \* elements of a tensor
MantBits == 4       \* significant bits an element keeps after an operation

Layers == 1..NumLayers
Branches == 1..NumBranches
KindSeq == <<"Identity", "Linear", "Bias">>
Kinds == {KindSeq[i] : i \in DOMAIN KindSeq}
\* the kinds LifeSpec adds: two are enough to tell an order
AddKinds == {KindSeq[1], KindSeq[2]}

VARIABLES
  layer,      \* layer[l]: the members of MultiplyMerge object l, and its lifetime
  alloc,      \* alloc[b]: "free" | "owned" (heap, no other owner) | "external"
  kind,       \* kind[b]: the concrete layer type held by the variant
  destroyed,  \* destroyed[b]: how often deleteVisitor was applied to b
  delBy,      \* delBy[l][b]: how often l's destructor applied deleteVisitor to b
  archive,    \* what the last saving serialize() wrote
  crashed,    \* the process died (an outcome of undefined behaviour)
  last,       \* the operation that produced this state
  mv,         \* the last move between two distinct layers, while both are untouched
  steps,      \* operations performed so far
  bout,       \* bout[b]: the matrix OutputParameter() of b refers to
  bdelta,     \* bdelta[b]: the matrix Delta() of b refers to
  bgrad,      \* bgrad[b]: the weight gradient b accumulates
  output,     \* the caller's matrix passed to Forward as output
  g,          \* the caller's matrix passed to Backward as g
  gradient,   \* the caller's matrix passed to Gradient as gradient
  calls,      \* the visitor applications of the last call, in order
  raised,     \* the error the last call reported to its caller
  built       \* the layers whose flags are still those their constructor set

lifeVars == <<layer, alloc, kind, destroyed, delBy, archive, mv, built>>
tensorVars == <<bout, bdelta, bgrad, output, g, gradient, calls>>
vars == <<layer, alloc, kind, destroyed, delBy, archive, crashed, last, mv, steps,
          bout, bdelta, bgrad, output, g, gradient, calls, raised, built>>

\* ------------------------------------------------------------ sequences
Range(s) == {s[i] : i \in DOMAIN s}
CountIn(s, b) == Cardinality({i \in DOMAIN s : s[i] = b})

\* ------------------------------------------------------- object members
NoLayer ==
  [st |-> "none", model |-> FALSE, run |-> FALSE, ownsLayer |-> FALSE,
   network |-> <<>>, weights |-> 0]

\* MultiplyMerge(const bool model, const bool run)
ConstructLayer(m, r) ==
  [st |-> "live", model |-> m, run |-> r, ownsLayer |-> ~m,
   network |-> <<>>, weights |-> 0]

\* MultiplyMerge(const MultiplyMerge& layer): member-wise copy
CopyOf(L) ==
  [st |-> "live", model |-> L.model, run |-> L.run, ownsLayer |-> L.ownsLayer,
   network |-> L.network, weights |-> L.weights]

\* variant: the move leaves the source's vector as it was (a copy)
MovedFromKept(L) == L

\* what std::move leaves in the source: bools are copied, the vector and the
\* matrix are emptied
MovedFrom(L) == [L EXCEPT !.network = <<>>, !.weights = 0]

\* operator=(const MultiplyMerge&): guarded by this != &layer
CopyAssignTo(T, S, same) == IF same THEN T ELSE CopyOf(S)

\* operator=(MultiplyMerge&&): guarded by this != &layer
MoveAssignTo(T, S, same) == IF same THEN T ELSE CopyOf(S)

\* variant: the destructor without its ownsLayer test
DestroyTargetsAlways(L) == L.network

\* ~MultiplyMerge(): the elements deleteVisitor is applied to
DestroyTargets(L) == IF L.ownsLayer THEN L.network ELSE <<>>

\* ------------------------------------------------------------ the heap
FreeSet == {b \in Branches : alloc[b] = "free"}
NthFree(i) == CHOOSE b \in FreeSet : Cardinality({c \in FreeSet : c < b}) = i - 1
FreshSeq(n) == [i \in 1..n |-> NthFree(i)]
Dangling(L) == \E b \in Range(L.network) : destroyed[b] > 0

\* ------------------------------------------------------------ archive
NoArchive ==
  [full |-> FALSE, kinds |-> <<>>, model |-> FALSE, run |-> FALSE,
   ownsLayer |-> FALSE]

\* serialize(), saving: the tagged vector, then model, run, ownsLayer
SaveOf(L) ==
  [full |-> TRUE, kinds |-> [i \in DOMAIN L.network |-> kind[L.network[i]]],
   model |-> L.model, run |-> L.run, ownsLayer |-> L.ownsLayer]

\* serialize(), loading: network.clear(), then the vector is filled with newly
\* allocated elements `new`, then the three flags are read; weights is not read
LoadInto(L, ar, new) ==
  LET cleared == [L EXCEPT !.network = <<>>]
  IN [cleared EXCEPT !.network = cleared.network \o new, !.model = ar.model,
                     !.run = ar.run, !.ownsLayer = ar.ownsLayer]

\* ------------------------------------------------------------ history
NoMove == [on |-> FALSE, s |-> 0, t |-> 0, net |-> <<>>, owns |-> FALSE]
KeepMv(written) ==
  IF mv.on /\ written \cap {mv.s, mv.t} = {} THEN mv ELSE NoMove
Op(o, l, s) == [op |-> o, l |-> l, src |-> s, x |-> <<>>, y |-> <<>>]

Live(l) == layer[l].st = "live"
\* a new object takes the lowest unused slot
NewSlot(l) == layer[l].st = "none" /\ \A k \in Layers : k < l => layer[k].st # "none"
\* no function of the layer throws or returns an error
Step == ~crashed /\ steps < MaxOps /\ steps' = steps + 1 /\ raised' = "none"
CallStep == ~crashed /\ steps < MaxCalls /\ steps' = steps + 1 /\ raised' = "none"

\* ------------------------------------------------------------ actions
Construct(l, m, r) ==
  /\ Step /\ NewSlot(l)
  /\ layer' = [layer EXCEPT ![l] = ConstructLayer(m, r)]
  /\ built' = built \cup {l}
  /\ last' = Op("Construct", l, l)
  /\ mv' = KeepMv({l})
  /\ UNCHANGED <<alloc, kind, destroyed, delBy, archive, crashed, tensorVars>>

\* Add(): push_back of a new element; a layer built with model = true holds
\* elements that belong to the enclosing model
Attach(l, k) ==
  /\ Step /\ Live(l) /\ Len(layer[l].network) < MaxNet /\ FreeSet # {}
  /\ LET b == NthFree(1)
     IN /\ layer' = [layer EXCEPT ![l].network = Append(@, b)]
        /\ alloc' = [alloc EXCEPT ![b] = IF layer[l].model THEN "external" ELSE "owned"]
        /\ kind' = [kind EXCEPT ![b] = k]
  /\ built' = built
  /\ last' = Op("Attach", l, l)
  /\ mv' = KeepMv({l})
  /\ UNCHANGED <<destroyed, delBy, archive, crashed, tensorVars>>

CopyConstruct(t, s) ==
  /\ Step /\ NewSlot(t) /\ Live(s)
  /\ layer' = [layer EXCEPT ![t] = CopyOf(layer[s])]
  /\ built' = built
  /\ last' = Op("CopyConstruct", t, s)
  /\ mv' = KeepMv({t})
  /\ UNCHANGED <<alloc, kind, destroyed, delBy, archive, crashed, tensorVars>>

MoveConstruct(t, s) ==
  /\ Step /\ NewSlot(t) /\ Live(s)
  /\ layer' = [layer EXCEPT ![t] = CopyOf(layer[s]), ![s] = MovedFrom(layer[s])]
  /\ built' = built
  /\ last' = Op("MoveConstruct", t, s)
  /\ mv' = [on |-> TRUE, s |-> s, t |-> t, net |-> layer[s].network,
            owns |-> layer[s].ownsLayer]
  /\ UNCHANGED <<alloc, kind, destroyed, delBy, archive, crashed, tensorVars>>

CopyAssign(t, s) ==
  /\ Step /\ Live(t) /\ Live(s)
  /\ layer' = [layer EXCEPT ![t] = CopyAssignTo(layer[t], layer[s], t = s)]
  /\ built' = IF t = s THEN built ELSE built \ {t}
  /\ last' = Op("CopyAssign", t, s)
  /\ mv' = IF t = s THEN mv ELSE KeepMv({t})
  /\ UNCHANGED <<alloc, kind, destroyed, delBy, archive, crashed, tensorVars>>

MoveAssign(t, s) ==
  /\ Step /\ Live(t) /\ Live(s)
  /\ layer' = IF t = s
                THEN [layer EXCEPT ![t] = MoveAssignTo(layer[t], layer[s], TRUE)]
                ELSE [layer EXCEPT ![t] = MoveAssignTo(layer[t], layer[s], FALSE),
                                   ![s] = MovedFrom(layer[s])]
  /\ built' = IF t = s THEN built ELSE built \ {t}
  /\ last' = Op("MoveAssign", t, s)
  /\ mv' = IF t = s THEN mv
           ELSE [on |-> TRUE, s |-> s, t |-> t, net |-> layer[s].network,
                 owns |-> layer[s].ownsLayer]
  /\ UNCHANGED <<alloc, kind, destroyed, delBy, archive, crashed, tensorVars>>

\* ~MultiplyMerge(). Deleting an element that was deleted before is undefined:
\* the process may die or go on.
Destroy(l) ==
  /\ Step /\ Live(l)
  /\ LET tg == DestroyTargets(layer[l])
     IN /\ destroyed' = [b \in Branches |-> destroyed[b] + CountIn(tg, b)]
        /\ delBy' = [delBy EXCEPT ![l] = [b \in Branches |-> CountIn(tg, b)]]
        /\ crashed' \in (IF \E b \in Range(tg) : destroyed[b] > 0
                           THEN BOOLEAN ELSE {FALSE})
  /\ layer' = [layer EXCEPT ![l].st = "dead"]
  /\ built' = built
  /\ last' = Op("Destroy", l, l)
  /\ mv' = mv
  /\ UNCHANGED <<alloc, kind, archive, tensorVars>>

\* serialize() with a saving archive. Reading through a deleted element is
\* undefined: the process may die, or the stale object is still read.
Save(l) ==
  /\ Step /\ Live(l)
  /\ archive' = SaveOf(layer[l])
  /\ crashed' \in (IF Dangling(layer[l]) THEN BOOLEAN ELSE {FALSE})
  /\ built' = built
  /\ last' = Op("Save", l, l)
  /\ mv' = mv
  /\ UNCHANGED <<layer, alloc, kind, destroyed, delBy, tensorVars>>

\* serialize() with a loading archive
Load(t) ==
  /\ Step /\ Live(t) /\ archive.full
  /\ Cardinality(FreeSet) >= Len(archive.kinds)
  /\ LET new == FreshSeq(Len(archive.kinds))
     IN /\ layer' = [layer EXCEPT ![t] = LoadInto(layer[t], archive, new)]
        /\ alloc' = [b \in Branches |-> IF b \in Range(new) THEN "owned" ELSE alloc[b]]
        /\ kind' = [b \in Branches |->
                     IF \E i \in DOMAIN new : new[i] = b
                       THEN archive.kinds[CHOOSE i \in DOMAIN new : new[i] = b]
                       ELSE kind[b]]
  /\ built' = built \ {t}
  /\ last' = Op("Load", t, t)
  /\ mv' = KeepMv({t})
  /\ UNCHANGED <<destroyed, delBy, archive, crashed, tensorVars>>

\* ------------------------------------------------------------ tensors
Elems == 1..Dim
Zero == [i \in Elems |-> 0]
\* three equal-shaped matrices with odd elements from {3, 5, 7}
Ramp(a) == [i \in Elems |-> 3 + ((a - 3 + 2 * (i - 1)) % 6)]
TensorSet == {Ramp(3), Ramp(5), Ramp(7)}
\* the upstream gradients and errors a caller passes
GradSet == {Ramp(3), Ramp(5)}

\* an arithmetic result keeps MantBits significant bits (floating-point rounding,
\* toward zero), so the order of a chain of operations shows in its result
RECURSIVE Round(_)
Round(n) == IF n < 2 ^ MantBits THEN n ELSE 2 * Round(n \div 2)
\* arma: a %= b, element-wise
EMul(a, b) == [i \in Elems |-> Round(a[i] * b[i])]
\* arma: a += b, element-wise
EAdd(a, b) == [i \in Elems |-> Round(a[i] + b[i])]

\* ------------------------------------------------- the branches' own code
\* ForwardVisitor on a branch of kind k: the output it writes for input x
BranchForward(k, x) ==
  IF k = "Identity" THEN x
  ELSE IF k = "Linear" THEN EMul(x, [i \in Elems |-> 3])
  ELSE EAdd(x, [i \in Elems |-> 2])
\* BackwardVisitor on a branch of kind k: the delta it writes, from the output
\* `out` it is given and the upstream gradient gy
BranchBackward(k, out, gy) ==
  IF k = "Identity" THEN gy
  ELSE IF k = "Linear" THEN EMul(gy, [i \in Elems |-> 3])
  ELSE EMul(out, gy)
\* GradientVisitor on a branch of kind k: its accumulated weight gradient
BranchGradient(k, w, x, e) ==
  IF k = "Identity" THEN w ELSE EAdd(w, EMul(x, e))

Call(f, b, x, y) == [f |-> f, b |-> b, x |-> x, y |-> y]
OpXY(o, l, x, y) == [op |-> o, l |-> l, src |-> l, x |-> x, y |-> y]

\* ------------------------------------------------------------ Forward
\* if (run) for i: ForwardVisitor(input, OutputParameter(network[i]))
ForwardCalls(L, x) ==
  IF L.run THEN [i \in DOMAIN L.network |-> Call("Forward", L.network[i], x, <<>>)]
  ELSE <<>>
\* variant: the branches are run whatever the run flag says
ForwardOutsAlways(L, x) ==
  [b \in Branches |->
    IF b \in Range(L.network) THEN BranchForward(kind[b], x) ELSE bout[b]]
ForwardOuts(L, x) ==
  IF L.run
    THEN [b \in Branches |->
           IF b \in Range(L.network) THEN BranchForward(kind[b], x) ELSE bout[b]]
    ELSE bout
\* output = OutputParameter(network.front()); for i = 1..: output %= ...(network[i])
RECURSIVE MulLoop(_, _, _, _)
MulLoop(net, outs, i, acc) ==
  IF i > Len(net) THEN acc ELSE MulLoop(net, outs, i + 1, EMul(acc, outs[net[i]]))
\* variant: the product loop starts at index 0 and takes the first output twice
ForwardOutputFromZero(net, outs) == MulLoop(net, outs, 1, outs[net[1]])
ForwardOutput(net, outs) == MulLoop(net, outs, 2, outs[net[1]])
OutputReads(net) == [i \in DOMAIN net |-> Call("OutputParameter", net[i], <<>>, <<>>)]

\* network.front() of an empty vector is undefined: the process may die, or the
\* caller's matrix receives whatever the read finds
Garbage == TensorSet \cup {Zero}

Forward(l, x) ==
  /\ CallStep /\ Live(l)
  /\ last' = OpXY("Forward", l, x, <<>>)
  /\ LET L == layer[l]
         outs == ForwardOuts(L, x)
     IN IF L.network = <<>>
          THEN /\ \/ crashed' = TRUE /\ output' = output
                  \/ crashed' = FALSE /\ output' \in Garbage
               /\ calls' = <<>>
               /\ bout' = bout
          ELSE /\ bout' = outs
               /\ calls' = ForwardCalls(L, x) \o OutputReads(L.network)
               /\ output' = ForwardOutput(L.network, outs)
               /\ crashed' = crashed
  /\ UNCHANGED <<lifeVars, bdelta, bgrad, g, gradient>>

\* ------------------------------------------------------------ Backward
\* for i: BackwardVisitor(OutputParameter(network[i]), gy, Delta(network[i]))
BackwardCalls(net, gy) ==
  [i \in DOMAIN net |-> Call("Backward", net[i], bout[net[i]], gy)]
BackwardDeltas(net, gy) ==
  [b \in Branches |->
    IF b \in Range(net) THEN BranchBackward(kind[b], bout[b], gy) ELSE bdelta[b]]
\* g = Delta(network[0]); for i = 1..: g += Delta(network[i])
RECURSIVE AddLoop(_, _, _, _)
AddLoop(net, deltas, i, acc) ==
  IF i > Len(net) THEN acc ELSE AddLoop(net, deltas, i + 1, EAdd(acc, deltas[net[i]]))
\* variant: the sum loop starts one element late
BackwardSumSkipsOne(net, deltas) == AddLoop(net, deltas, 3, deltas[net[1]])
BackwardSum(net, deltas) == AddLoop(net, deltas, 2, deltas[net[1]])
DeltaReads(net) == [i \in DOMAIN net |-> Call("Delta", net[i], <<>>, <<>>)]
\* variant: the pass-through hands back the input instead of gy
PassThroughInput(x, gy) == x
\* else g = gy
PassThrough(x, gy) == gy

Backward(l, x, gy) ==
  /\ CallStep /\ Live(l)
  /\ last' = OpXY("Backward", l, <<>>, gy)
  /\ LET L == layer[l]
         deltas == BackwardDeltas(L.network, gy)
     IN IF L.run
          THEN IF L.network = <<>>
                 THEN \* network[0] of an empty vector is undefined
                      /\ \/ crashed' = TRUE /\ g' = g
                         \/ crashed' = FALSE /\ g' \in Garbage
                      /\ calls' = <<>>
                      /\ bdelta' = bdelta
                 ELSE /\ bdelta' = deltas
                      /\ calls' = BackwardCalls(L.network, gy) \o DeltaReads(L.network)
                      /\ g' = BackwardSum(L.network, deltas)
                      /\ crashed' = crashed
          ELSE /\ g' = PassThrough(x, gy)
               /\ calls' = <<>>
               /\ UNCHANGED <<bdelta, crashed>>
  /\ UNCHANGED <<lifeVars, bout, bgrad, output, gradient>>

\* ------------------------------------------------------------ Gradient
\* if (run) for i: GradientVisitor(input, error)
GradientCalls(L, x, e) ==
  IF L.run THEN [i \in DOMAIN L.network |-> Call("Gradient", L.network[i], x, e)]
  ELSE <<>>
GradientAccum(L, x, e) ==
  IF L.run
    THEN [b \in Branches |->
           IF b \in Range(L.network) THEN BranchGradient(kind[b], bgrad[b], x, e)
           ELSE bgrad[b]]
    ELSE bgrad
\* variant: Gradient stores a gradient of its own in the caller's matrix
GradientSlotWritten(old, x, e) == EMul(x, e)
\* the third parameter, /* gradient */, is unnamed: the caller's matrix stays
GradientSlot(old, x, e) == old
\* the members of the layer after Gradient
GradientSelf(L, x, e) == L

Gradient(l, x, e) ==
  /\ CallStep /\ Live(l)
  /\ last' = OpXY("Gradient", l, x, e)
  /\ calls' = GradientCalls(layer[l], x, e)
  /\ bgrad' = GradientAccum(layer[l], x, e)
  /\ gradient' = GradientSlot(gradient, x, e)
  /\ layer' = [layer EXCEPT ![l] = GradientSelf(layer[l], x, e)]
  /\ UNCHANGED <<alloc, kind, destroyed, delBy, archive, mv, built, crashed,
                 bout, bdelta, output, g>>

\* ------------------------------------------------------ specifications
KindOf(b) == KindSeq[((b - 1) % Len(KindSeq)) + 1]

\* One layer after MultiplyMerge(false, r) and n calls of Add (model and
\* ownsLayer are read by no function Spec calls). With run = true the branches
\* are of any kinds and hold no output yet; with run = false they hold the
\* outputs an external caller left in them.
Init ==
  /\ \E m \in {FALSE}, r \in BOOLEAN, n \in 0..RunNet :
       \E ks \in [1..n -> Kinds], os \in [1..n -> TensorSet] :
         /\ r => os = [i \in 1..n |-> Ramp(3)]
         /\ ~r => ks = [i \in 1..n |-> KindOf(i)]
         /\ layer = [l \in Layers |->
                      IF l = 1 THEN [ConstructLayer(m, r) EXCEPT
                                       !.network = [i \in 1..n |-> i], !.weights = 1]
                      ELSE NoLayer]
         /\ alloc = [b \in Branches |->
                      IF b <= n THEN (IF m THEN "external" ELSE "owned") ELSE "free"]
         /\ kind = [b \in Branches |-> IF b <= n THEN ks[b] ELSE KindSeq[1]]
         /\ bout = [b \in Branches |-> IF b <= n /\ ~r THEN os[b] ELSE Zero]
  /\ destroyed = [b \in Branches |-> 0]
  /\ delBy = [l \in Layers |-> [b \in Branches |-> 0]]
  /\ archive = NoArchive
  /\ crashed = FALSE
  /\ last = Op("Init", 0, 0)
  /\ mv = NoMove
  /\ steps = 0
  /\ bdelta = [b \in Branches |-> Zero]
  /\ bgrad = [b \in Branches |-> Zero]
  /\ output = Zero
  /\ g = Zero
  /\ gradient = Zero
  /\ calls = <<>>
  /\ raised = "none"
  /\ built = {1}

Next ==
  \/ \E l \in Layers, x \in TensorSet : Forward(l, x)
  \/ \E l \in Layers, x \in TensorSet, gy \in GradSet : Backward(l, x, gy)
  \/ \E l \in Layers, x \in TensorSet, e \in GradSet : Gradient(l, x, e)

Spec == Init /\ [][Next]_vars

LifeInit ==
  /\ layer = [l \in Layers |-> NoLayer]
  /\ alloc = [b \in Branches |-> "free"]
  /\ kind = [b \in Branches |-> KindSeq[1]]
  /\ destroyed = [b \in Branches |-> 0]
  /\ delBy = [l \in Layers |-> [b \in Branches |-> 0]]
  /\ archive = NoArchive
  /\ crashed = FALSE
  /\ last = Op("Init", 0, 0)
  /\ mv = NoMove
  /\ steps = 0
  /\ bout = [b \in Branches |-> Zero]
  /\ bdelta = [b \in Branches |-> Zero]
  /\ bgrad = [b \in Branches |-> Zero]
  /\ output = Zero
  /\ g = Zero
  /\ gradient = Zero
  /\ calls = <<>>
  /\ raised = "none"
  /\ built = {}

LifeNext ==
  \/ \E l \in Layers, m \in BOOLEAN, r \in BOOLEAN : Construct(l, m, r)
  \/ \E l \in Layers, k \in AddKinds : Attach(l, k)
  \/ \E t \in Layers, s \in Layers : CopyConstruct(t, s)
  \/ \E t \in Layers, s \in Layers : MoveConstruct(t, s)
  \/ \E t \in Layers, s \in Layers : CopyAssign(t, s)
  \/ \E t \in Layers, s \in Layers : MoveAssign(t, s)
  \/ \E l \in Layers : Destroy(l)
  \/ \E l \in Layers : Save(l)
  \/ \E l \in Layers : Load(l)

LifeSpec == LifeInit /\ [][LifeNext]_vars

\* ================================================================ claims
NetOf(l) == layer[l].network
OutsOf(net) == [i \in DOMAIN net |-> bout[net[i]]]
DeltasOf(net) == [i \in DOMAIN net |-> bdelta[net[i]]]
Reverse(ts) == [i \in DOMAIN ts |-> ts[Len(ts) + 1 - i]]

RECURSIVE FoldProduct(_)
FoldProduct(ts) ==
  IF Len(ts) = 1 THEN ts[1]
  ELSE EMul(FoldProduct(SubSeq(ts, 1, Len(ts) - 1)), ts[Len(ts)])

RECURSIVE FoldSum(_)
FoldSum(ts) ==
  IF Len(ts) = 1 THEN ts[1]
  ELSE EAdd(FoldSum(SubSeq(ts, 1, Len(ts) - 1)), ts[Len(ts)])

\* C1: after Forward on a non-empty collection, for either value of run, the
\* output is the left fold of the element-wise product over the branches'
\* outputs in collection order, seeded by the first; with run = true these are
\* the outputs each branch's own Forward produced for the input; with a single
\* branch the output is that branch's output.
C1_ForwardIsLeftFold ==
  \A l \in Layers :
    (last.op = "Forward" /\ last.l = l /\ NetOf(l) # <<>>) =>
      /\ ~crashed
      /\ layer[l].run =>
           \A i \in DOMAIN NetOf(l) :
             bout[NetOf(l)[i]] = BranchForward(kind[NetOf(l)[i]], last.x)
      /\ output = FoldProduct(OutsOf(NetOf(l)))
      /\ Len(NetOf(l)) = 1 => output = bout[NetOf(l)[1]]

\* a Forward over three branches whose result depends on the order of the fold
C1_Witness ==
  /\ last.op = "Forward" /\ Len(NetOf(last.l)) >= 3
  /\ output = FoldProduct(OutsOf(NetOf(last.l)))
  /\ output # FoldProduct(Reverse(OutsOf(NetOf(last.l))))

\* C2: after Backward with run = true on a non-empty collection, every branch's
\* Backward was applied exactly once, in collection order, to that branch's own
\* output and the upstream gradient, writing that branch's delta; the deltas
\* were read only after all of these applications, and g is their
\* element-wise sum (dA + dB for two branches).
C2_BackwardRunsThenSums ==
  \A l \in Layers :
    (last.op = "Backward" /\ last.l = l /\ layer[l].run /\ NetOf(l) # <<>>) =>
      LET net == NetOf(l)
          n == Len(net)
      IN /\ Len(calls) = 2 * n
         /\ \A i \in 1..n :
              /\ calls[i] = Call("Backward", net[i], bout[net[i]], last.y)
              /\ calls[n + i] = Call("Delta", net[i], <<>>, <<>>)
              /\ bdelta[net[i]] = BranchBackward(kind[net[i]], bout[net[i]], last.y)
         /\ g = FoldSum(DeltasOf(net))
         /\ n = 2 => g = EAdd(bdelta[net[1]], bdelta[net[2]])

\* a Backward over two branches that produced different deltas
C2_Witness ==
  /\ last.op = "Backward" /\ layer[last.l].run /\ Len(NetOf(last.l)) = 2
  /\ bdelta[NetOf(last.l)[1]] # bdelta[NetOf(last.l)[2]]
  /\ g = EAdd(bdelta[NetOf(last.l)[1]], bdelta[NetOf(last.l)[2]])

\* C3: after Backward with run = false, g is the upstream gradient, whatever
\* the collection (empty or not), the branches' outputs and deltas, and the
\* input argument.
C3_BackwardPassThrough ==
  \A l \in Layers :
    (last.op = "Backward" /\ last.l = l /\ ~layer[l].run) => g = last.y /\ ~crashed

\* a pass-through Backward on a layer whose branches hold outputs
C3_Witness ==
  /\ last.op = "Backward" /\ ~layer[last.l].run /\ NetOf(last.l) # <<>>
  /\ \A b \in Range(NetOf(last.l)) : bout[b] # Zero /\ bout[b] # g
  /\ g = last.y

\* C6 (as claimed): Forward on an empty collection, for either value of run,
\* reports InvalidConfiguration and leaves the caller's output as it was.
C6_EmptyForwardFails ==
  [][(last'.op = "Forward" /\ NetOf(last'.l) = <<>>) =>
       (raised' = "InvalidConfiguration" /\ output' = output /\ ~crashed')]_vars

\* C8: Gradient with run = true applies every branch's Gradient exactly once,
\* in collection order, to the given (input, error), and leaves the caller's
\* gradient matrix and the layer's flags, collection and weights as they were.
C8_GradientFansOut ==
  [][(last'.op = "Gradient" /\ layer[last'.l].run) =>
       /\ calls' = [i \in DOMAIN NetOf(last'.l) |->
                     Call("Gradient", NetOf(last'.l)[i], last'.x, last'.y)]
       /\ gradient' = gradient
       /\ layer' = layer]_vars

\* a Gradient over two or more branches, one of which accumulated something
C8_Witness ==
  /\ last.op = "Gradient" /\ layer[last.l].run /\ Len(NetOf(last.l)) >= 2
  /\ Len(calls) = Len(NetOf(last.l))
  /\ \E b \in Range(NetOf(last.l)) : bgrad[b] # Zero

\* C9: with run = false, no Forward, Backward or Gradient call applies a
\* branch's Forward, Backward or Gradient or changes a branch's output, delta
\* or weight gradient: Forward only reads the outputs, Backward and Gradient
\* touch no branch.
C9_RunFalseTouchesNoBranch ==
  [][(last'.op \in {"Forward", "Backward", "Gradient"} /\ ~layer[last'.l].run) =>
       /\ bout' = bout /\ bdelta' = bdelta /\ bgrad' = bgrad
       /\ \A i \in DOMAIN calls' : calls'[i].f = "OutputParameter"
       /\ last'.op # "Forward" => calls' = <<>>]_vars

\* a run = false layer with branches after Forward, Backward and Gradient
C9_Witness ==
  /\ last.op = "Gradient" /\ ~layer[last.l].run /\ Len(NetOf(last.l)) >= 2
  /\ steps >= 3 /\ output # Zero /\ g # Zero
  /\ \A b \in Branches : bdelta[b] = Zero /\ bgrad[b] = Zero

C5_DestroyedAtMostOnce == \A b \in Branches : destroyed[b] <= 1

\* a branch nobody will destroy: heap-allocated, alive, and in no live owning
\* layer's collection
Leaked(al, de, la, b) ==
  /\ al[b] = "owned" /\ de[b] = 0
  /\ ~\E l \in Layers :
        la[l].st = "live" /\ la[l].ownsLayer /\ b \in Range(la[l].network)

\* C7 (as claimed): a load gives the target a collection of the saved length
\* and kinds in the saved order, none of whose elements it held before, and the
\* saved model, run and ownsLayer; the branches it held before are neither
\* leaked nor duplicated by the load.
C7_LoadReplaces ==
  [][(last'.op = "Load") =>
       LET t == last'.l
           held == Range(layer[t].network)
           now == layer'[t].network
       IN /\ Len(now) = Len(archive.kinds)
          /\ \A i \in DOMAIN now : kind'[now[i]] = archive.kinds[i]
          /\ Range(now) \cap held = {}
          /\ layer'[t].model = archive.model
          /\ layer'[t].run = archive.run
          /\ layer'[t].ownsLayer = archive.ownsLayer
          /\ \A b \in held :
               /\ CountIn(now, b) = 0
               /\ ~Leaked(alloc, destroyed, layer, b) =>
                    ~Leaked(alloc', destroyed', layer', b)]_vars

\* C10: a move-construction or move-assignment from S into another layer T
\* leaves S with an empty collection and T with the branches S held, in order,
\* and S's flags; when S and T are destroyed next (in either order) their
\* destructors together destroy each of those branches once if ownsLayer is
\* set and not at all otherwise; an assignment of a layer to itself changes
\* nothing.
C10_MoveTransfers ==
  [][/\ (last'.op \in {"MoveConstruct", "MoveAssign"} /\ last'.l # last'.src) =>
          LET t == last'.l
              s == last'.src
          IN /\ layer'[s].network = <<>>
             /\ layer'[t].network = layer[s].network
             /\ layer'[t].model = layer[s].model
             /\ layer'[t].run = layer[s].run
             /\ layer'[t].ownsLayer = layer[s].ownsLayer
             /\ layer'[t].st = "live"
     /\ (mv'.on /\ layer'[mv'.s].st = "dead" /\ layer'[mv'.t].st = "dead") =>
          \A b \in Range(mv'.net) :
            delBy'[mv'.s][b] + delBy'[mv'.t][b] = IF mv'.owns THEN 1 ELSE 0
     /\ (last'.op \in {"CopyAssign", "MoveAssign"} /\ last'.l = last'.src) =>
          /\ layer' = layer /\ alloc' = alloc /\ destroyed' = destroyed
          /\ delBy' = delBy /\ archive' = archive]_vars

\* S moved into T with an owned branch, then both destroyed: the branch was
\* destroyed once, by T
C10_Witness ==
  /\ mv.on /\ mv.owns /\ mv.net # <<>>
  /\ layer[mv.s].st = "dead" /\ layer[mv.t].st = "dead"
  /\ \A b \in Range(mv.net) : delBy[mv.t][b] = 1 /\ delBy[mv.s][b] = 0

====
